---------------------------- MODULE Spec2Model ----------------------------
(***************************************************************************)
(* CredLyse backend: certificate issuance (certificate_service.py) and the *)
(* batch content analysis (processing_service.py, ai_service.py), modelled *)
(* over one course.  The backing store is the only state shared between   *)
(* requests; every request works in a database session of its own, whose  *)
(* staged rows reach the store at db.commit() and are dropped when the     *)
(* request fails.                                                          *)
(***************************************************************************)
EXTENDS Integers, Sequences, FiniteSets, TLC

\* ------------------------------------------------------------- bounds
MaxCalls == 2
MaxRuns == 2

Users == {"alice", "bob"}
Reqs == {"r1", "r2"}
\* The videos a course can hold, in the order the store returns them.
VideoOrder == <<"v1", "v2">>
MaxVideos == Len(VideoOrder)
Videos == {VideoOrder[i] : i \in 1..MaxVideos}

Runs == {"b1", "b2"}

\* ------------------------------------------------------------- values
\* None for a row, and None for a URL.
None == [none |-> TRUE]
NoUrl == <<>>
NoUser == "nobody"
WatchStatus == {"NOT_STARTED", "IN_PROGRESS", "WATCHED"}
ProgressRecords == [watch_status : WatchStatus, is_quiz_passed : BOOLEAN]
\* The records the progress endpoints write in the issuance specifications.
ProgressInputs ==
    {[watch_status |-> "IN_PROGRESS", is_quiz_passed |-> FALSE],
     [watch_status |-> "WATCHED", is_quiz_passed |-> TRUE]}

VARIABLES
    numVideos,    \* the course holds the videos 1..numVideos
    enrollment,   \* user -> None or the Enrollment row
    progress,     \* user -> video -> None or the VideoProgress row
    certs,        \* the committed Certificate rows
    pc,           \* request -> where the issue_certificate call stands
    user,         \* request -> the user of the call
    staged,       \* request -> the Certificate added to the session, or None
    result,       \* request -> what the call gave its caller
    trace,        \* request -> the steps the call has performed, in order
    nextId,       \* the next fresh certificate identifier (uuid4)
    calls,        \* issue_certificate calls begun so far
    uploads,      \* user -> the uploads that succeeded for the user
    vstore,       \* video -> the committed Video row
    bpc,          \* run -> where the process_course_content run stands
    selected,     \* run -> the pending videos the run selected, in order
    loaded,       \* run -> video -> the row as the session loaded it
    session,      \* run -> video -> the row as the session holds it now
    report,       \* run -> the counts and details of the run
    runs,         \* process_course_content runs begun so far
    analysed,     \* a direct analyze_video_content call: its inputs and outcome
    verdict,      \* a direct check_eligibility call: its user and its answer
    summary,      \* what a get_analysis_status call returned, or None
    caller        \* run -> the user whose analyze request the run serves

vars == <<numVideos, enrollment, progress, certs, pc, user, staged, result,
          trace, nextId, calls, uploads,
          vstore, bpc, selected, loaded, session, report, runs,
          analysed, verdict, summary, caller>>

batchVars == <<vstore, bpc, selected, loaded, session, report, runs>>

certVars == <<pc, user, staged, result, trace, nextId, calls, uploads>>

callVars == <<analysed, verdict, summary, caller>>

CourseVideos == {VideoOrder[i] : i \in 1..numVideos}

NoResult == [kind |-> "none", cert |-> 0, missing |-> <<>>]

\* A Video row awaiting analysis, and the report of a run not yet made.
NoText == ""
PendingRow ==
    [analysis_status |-> "PENDING", transcript_text |-> NoText,
     quiz_data |-> None, has_quiz |-> FALSE]
NoReport == [success |-> FALSE, total_pending |-> 0, processed |-> 0,
             failed |-> 0, details |-> <<>>]

\* The committed certificates of a user.
CertsOf(u) == {c \in certs : c.user_id = u}

\* The step names of a call's trace.
Steps(r) == [i \in 1..Len(trace[r]) |-> trace[r][i][1]]

Did(r, step) == \E i \in 1..Len(trace[r]) : trace[r][i][1] = step

IsPrefix(s, t) == Len(s) <= Len(t) /\ \A i \in 1..Len(s) : s[i] = t[i]

\* ------------------------------------------------- check_eligibility
\* Mutant: the quiz of a recorded video is not looked at.
VideoReasons_IgnoresQuiz(u, v) ==
    LET p == progress[u][v] IN
    IF p = None THEN <<<<"not started", v>>>>
    ELSE IF p.watch_status # "WATCHED"
         THEN <<<<"not fully watched", v>>>> ELSE <<>>

\* Mutant: a recorded video contributes its first reason only.
VideoReasons_FirstOnly(u, v) ==
    LET p == progress[u][v] IN
    IF p = None THEN <<<<"not started", v>>>>
    ELSE IF p.watch_status # "WATCHED"
         THEN <<<<"not fully watched", v>>>>
         ELSE IF ~p.is_quiz_passed
              THEN <<<<"quiz not passed", v>>>> ELSE <<>>

\* The reasons one video contributes, in the order the loop appends them.
VideoReasons(u, v) ==
    LET p == progress[u][v] IN
    IF p = None THEN <<<<"not started", v>>>>
    ELSE (IF p.watch_status # "WATCHED"
             THEN <<<<"not fully watched", v>>>> ELSE <<>>)
         \o (IF ~p.is_quiz_passed
             THEN <<<<"quiz not passed", v>>>> ELSE <<>>)

RECURSIVE MissingUpTo(_, _)
MissingUpTo(u, n) ==
    IF n = 0 THEN <<>>
    ELSE MissingUpTo(u, n - 1) \o VideoReasons(u, VideoOrder[n])

\* Mutant: the enrollment is looked up without the user.
check_eligibility_AnyEnrollment(u) ==
    IF \A w \in Users : enrollment[w] = None
    THEN [eligible |-> FALSE, missing |-> <<<<"not enrolled", 0>>>>]
    ELSE IF numVideos = 0
    THEN [eligible |-> FALSE, missing |-> <<<<"no videos", 0>>>>]
    ELSE LET missing == MissingUpTo(u, numVideos) IN
         IF missing # <<>>
         THEN [eligible |-> FALSE, missing |-> missing]
         ELSE [eligible |-> TRUE, missing |-> <<>>]

\* Mutant: the evaluator stops at the first violation.
check_eligibility_FailFast(u) ==
    IF enrollment[u] = None
    THEN [eligible |-> FALSE, missing |-> <<<<"not enrolled", 0>>>>]
    ELSE IF numVideos = 0
    THEN [eligible |-> FALSE, missing |-> <<<<"no videos", 0>>>>]
    ELSE LET missing == MissingUpTo(u, numVideos) IN
         IF missing # <<>>
         THEN [eligible |-> FALSE, missing |-> <<missing[1]>>]
         ELSE [eligible |-> TRUE, missing |-> <<>>]

\* Mutant: the empty course is looked at before the enrollment.
check_eligibility_CourseFirst(u) ==
    IF numVideos = 0
    THEN [eligible |-> FALSE, missing |-> <<<<"no videos", 0>>>>]
    ELSE IF enrollment[u] = None
    THEN [eligible |-> FALSE, missing |-> <<<<"not enrolled", 0>>>>]
    ELSE LET missing == MissingUpTo(u, numVideos) IN
         IF missing # <<>>
         THEN [eligible |-> FALSE, missing |-> missing]
         ELSE [eligible |-> TRUE, missing |-> <<>>]

check_eligibility(u) ==
    IF enrollment[u] = None
    THEN [eligible |-> FALSE, missing |-> <<<<"not enrolled", 0>>>>]
    ELSE IF numVideos = 0
    THEN [eligible |-> FALSE, missing |-> <<<<"no videos", 0>>>>]
    ELSE LET missing == MissingUpTo(u, numVideos) IN
         IF missing # <<>>
         THEN [eligible |-> FALSE, missing |-> missing]
         ELSE [eligible |-> TRUE, missing |-> <<>>]

\* --------------------------------------------------------- environment
\* A video is added to the course.
AddVideo ==
    /\ UNCHANGED <<batchVars, callVars>>
    /\ numVideos < MaxVideos
    /\ numVideos' = numVideos + 1
    /\ UNCHANGED <<enrollment, progress, certs, certVars>>

\* A progress endpoint writes the user's record of a video; the enrollment
\* is created with the first record.
RecordProgress(u, v, p) ==
    /\ UNCHANGED <<batchVars, callVars>>
    /\ v \in CourseVideos
    /\ progress[u][v] # p
    /\ progress' = [progress EXCEPT ![u][v] = p]
    /\ enrollment' = IF enrollment[u] = None
                     THEN [enrollment EXCEPT ![u] =
                             [is_completed |-> FALSE, certificate_url |-> NoUrl]]
                     ELSE enrollment
    /\ UNCHANGED <<numVideos, certs, certVars>>


\* ---------------------------------------------------- issue_certificate
\* Mutant: the existence check never finds a row.
ExistingCerts_NeverFound(u) == {}

\* The rows the existence check selects.
ExistingCerts(u) == {c \in certs : c.user_id = u}

\* The insert of a Certificate row at commit: the certificates table takes
\* any row with a fresh identifier, whatever rows the pair already has.
InsertCertificate(rows, row) == rows \cup {row}

\* The artifact URL the uploader gives the file named after the certificate.
UploadUrl(id) == <<"certificate", id>>

\* A request arrives and the call starts.
Begin(r, u) ==
    /\ UNCHANGED <<batchVars, callVars>>
    /\ pc[r] = "idle"
    /\ calls < MaxCalls
    /\ calls' = calls + 1
    /\ pc' = [pc EXCEPT ![r] = "existence"]
    /\ user' = [user EXCEPT ![r] = u]
    /\ UNCHANGED <<numVideos, enrollment, progress, certs, staged, result,
                   trace, nextId, uploads>>

\* Mutant: an existing certificate does not end the call.
CheckExisting_Recheck(r) ==
    /\ UNCHANGED <<batchVars, callVars>>
    /\ pc[r] = "existence"
    /\ trace' = [trace EXCEPT ![r] =
                   Append(@, <<"existence",
                               IF CertsOf(user[r]) = {} THEN "none"
                               ELSE "found">>)]
    /\ pc' = [pc EXCEPT ![r] = "eligibility"]
    /\ UNCHANGED <<numVideos, enrollment, progress, certs, user, staged,
                   result, nextId, calls, uploads>>

\* 1. The existence check; scalar_one_or_none raises on more than one row.
CheckExisting(r) ==
    /\ UNCHANGED <<batchVars, callVars>>
    /\ pc[r] = "existence"
    /\ LET found == ExistingCerts(user[r]) IN
       /\ trace' = [trace EXCEPT ![r] =
                      Append(@, <<"existence",
                                  IF found = {} THEN "none" ELSE "found">>)]
       /\ IF found = {}
          THEN /\ pc' = [pc EXCEPT ![r] = "eligibility"]
               /\ UNCHANGED <<result, uploads>>
          ELSE IF Cardinality(found) = 1
          THEN LET c == CHOOSE x \in found : TRUE IN
               /\ pc' = [pc EXCEPT ![r] = "done"]
               /\ result' = [result EXCEPT ![r] =
                               [kind |-> "certificate", cert |-> c.id,
                                missing |-> <<>>]]
               /\ UNCHANGED uploads
          ELSE /\ pc' = [pc EXCEPT ![r] = "failed"]
               /\ result' = [result EXCEPT ![r] =
                               [kind |-> "error", cert |-> 0, missing |-> <<>>]]
               /\ UNCHANGED uploads
    /\ UNCHANGED <<numVideos, enrollment, progress, certs, user, staged,
                   nextId, calls>>

\* Mutant: the verdict of the eligibility check is ignored.
CheckEligible_IgnoresVerdict(r) ==
    /\ UNCHANGED <<batchVars, callVars>>
    /\ pc[r] = "eligibility"
    /\ trace' = [trace EXCEPT ![r] =
                   Append(@, <<"eligibility",
                               IF check_eligibility(user[r]).eligible
                               THEN "eligible" ELSE "not eligible">>)]
    /\ pc' = [pc EXCEPT ![r] = "render"]
    /\ staged' = [staged EXCEPT ![r] =
                    [id |-> nextId, user_id |-> user[r], pdf_url |-> NoUrl]]
    /\ nextId' = nextId + 1
    /\ UNCHANGED <<numVideos, enrollment, progress, certs, user, result,
                   calls, uploads>>

\* 2. and 3. The eligibility check, the HTTP 400 of an ineligible user, and
\* the Certificate row with a fresh identifier added to the session.
CheckEligible(r) ==
    /\ UNCHANGED <<batchVars, callVars>>
    /\ pc[r] = "eligibility"
    /\ LET e == check_eligibility(user[r]) IN
       /\ trace' = [trace EXCEPT ![r] =
                      Append(@, <<"eligibility",
                                  IF e.eligible THEN "eligible"
                                  ELSE "not eligible">>)]
       /\ IF ~e.eligible
          THEN /\ pc' = [pc EXCEPT ![r] = "failed"]
               /\ result' = [result EXCEPT ![r] =
                               [kind |-> "not eligible", cert |-> 0,
                                missing |-> e.missing]]
               /\ UNCHANGED <<staged, nextId>>
          ELSE /\ pc' = [pc EXCEPT ![r] = "render"]
               /\ staged' = [staged EXCEPT ![r] =
                               [id |-> nextId, user_id |-> user[r],
                                pdf_url |-> NoUrl]]
               /\ nextId' = nextId + 1
               /\ UNCHANGED result
    /\ UNCHANGED <<numVideos, enrollment, progress, certs, user, calls,
                   uploads>>

\* Mutant: the row created in step 3 is written before the render.
Abort_KeepsStagedRow(r) ==
    /\ pc' = [pc EXCEPT ![r] = "failed"]
    /\ result' = [result EXCEPT ![r] =
                    [kind |-> "error", cert |-> 0, missing |-> <<>>]]
    /\ certs' = certs \cup {staged[r]}
    /\ UNCHANGED <<numVideos, enrollment, progress, user, staged,
                   nextId, calls, uploads>>

\* The call ends with the exception of a failed render or upload: nothing of
\* the session is committed.
Abort(r) ==
    /\ pc' = [pc EXCEPT ![r] = "failed"]
    /\ result' = [result EXCEPT ![r] =
                    [kind |-> "error", cert |-> 0, missing |-> <<>>]]
    /\ UNCHANGED <<numVideos, enrollment, progress, certs, user, staged,
                   nextId, calls, uploads>>

\* 4. PdfGenerator.generate_overlay in the thread pool.
Render(r, ok) ==
    /\ UNCHANGED <<batchVars, callVars>>
    /\ pc[r] = "render"
    /\ trace' = [trace EXCEPT ![r] =
                   Append(@, <<"render", IF ok THEN "ok" ELSE "failed">>)]
    /\ IF ok
       THEN /\ pc' = [pc EXCEPT ![r] = "upload"]
            /\ UNCHANGED <<numVideos, enrollment, progress, certs, user,
                           staged, result, nextId, calls, uploads>>
       ELSE Abort(r)

\* Mutant: a failed upload is swallowed and the call goes on to its commit.
Upload_SwallowsFailure(r, ok) ==
    /\ UNCHANGED <<batchVars, callVars>>
    /\ pc[r] = "upload"
    /\ trace' = [trace EXCEPT ![r] =
                   Append(@, <<"upload", IF ok THEN "ok" ELSE "failed">>)]
    /\ pc' = [pc EXCEPT ![r] = "commit"]
    /\ IF ok
       THEN /\ staged' = [staged EXCEPT ![r].pdf_url = UploadUrl(staged[r].id)]
            /\ uploads' = [uploads EXCEPT ![user[r]] = @ + 1]
       ELSE UNCHANGED <<staged, uploads>>
    /\ UNCHANGED <<numVideos, enrollment, progress, certs, user, result,
                   nextId, calls>>

\* Mutant: a failed upload is tried once more within the same call.
Upload_Retries(r, ok) ==
    /\ UNCHANGED <<batchVars, callVars>>
    /\ pc[r] = "upload"
    /\ trace' = [trace EXCEPT ![r] =
                   Append(@, <<"upload", IF ok THEN "ok" ELSE "failed">>)]
    /\ IF ok
       THEN /\ pc' = [pc EXCEPT ![r] = "commit"]
            /\ staged' = [staged EXCEPT ![r].pdf_url = UploadUrl(staged[r].id)]
            /\ uploads' = [uploads EXCEPT ![user[r]] = @ + 1]
            /\ UNCHANGED <<numVideos, enrollment, progress, certs, user,
                           result, nextId, calls>>
       ELSE IF Did(r, "upload")
       THEN Abort(r)
       ELSE UNCHANGED <<numVideos, enrollment, progress, certs, pc, user,
                        staged, result, nextId, calls, uploads>>

\* 4. CloudinaryService.upload_pdf, and the URL set on the staged row.
Upload(r, ok) ==
    /\ UNCHANGED <<batchVars, callVars>>
    /\ pc[r] = "upload"
    /\ trace' = [trace EXCEPT ![r] =
                   Append(@, <<"upload", IF ok THEN "ok" ELSE "failed">>)]
    /\ IF ok
       THEN /\ pc' = [pc EXCEPT ![r] = "commit"]
            /\ staged' = [staged EXCEPT ![r].pdf_url = UploadUrl(staged[r].id)]
            /\ uploads' = [uploads EXCEPT ![user[r]] = @ + 1]
            /\ UNCHANGED <<numVideos, enrollment, progress, certs, user,
                           result, nextId, calls>>
       ELSE Abort(r)

\* Mutant: the certificate is committed without the enrollment change.
Commit_WithoutEnrollment(r) ==
    /\ UNCHANGED <<batchVars, callVars>>
    /\ pc[r] = "commit"
    /\ enrollment[user[r]] # None
    /\ trace' = [trace EXCEPT ![r] = Append(@, <<"commit", "ok">>)]
    /\ certs' = InsertCertificate(certs, staged[r])
    /\ pc' = [pc EXCEPT ![r] = "done"]
    /\ result' = [result EXCEPT ![r] =
                    [kind |-> "certificate", cert |-> staged[r].id,
                     missing |-> <<>>]]
    /\ UNCHANGED <<numVideos, enrollment, progress, user, staged, nextId,
                   calls, uploads>>

\* 5. The enrollment is marked completed and the session is committed: the
\* Certificate row and the Enrollment change reach the store together.
Commit(r) ==
    /\ UNCHANGED <<batchVars, callVars>>
    /\ pc[r] = "commit"
    /\ enrollment[user[r]] # None
    /\ trace' = [trace EXCEPT ![r] = Append(@, <<"commit", "ok">>)]
    /\ certs' = InsertCertificate(certs, staged[r])
    /\ enrollment' = [enrollment EXCEPT ![user[r]] =
                        [is_completed |-> TRUE,
                         certificate_url |-> staged[r].pdf_url]]
    /\ pc' = [pc EXCEPT ![r] = "done"]
    /\ result' = [result EXCEPT ![r] =
                    [kind |-> "certificate", cert |-> staged[r].id,
                     missing |-> <<>>]]
    /\ UNCHANGED <<numVideos, progress, user, staged, nextId, calls, uploads>>

\* The response is delivered and the session is closed.
Finish(r) ==
    /\ UNCHANGED <<batchVars, callVars>>
    /\ pc[r] \in {"done", "failed"}
    /\ pc' = [pc EXCEPT ![r] = "idle"]
    /\ staged' = [staged EXCEPT ![r] = None]
    /\ result' = [result EXCEPT ![r] = NoResult]
    /\ trace' = [trace EXCEPT ![r] = <<>>]
    /\ user' = [user EXCEPT ![r] = NoUser]
    /\ UNCHANGED <<numVideos, enrollment, progress, certs, nextId,
                   calls, uploads>>

\* ------------------------------------------------ analyze_video_content
\* The number of characters of a transcript that the prompt keeps.
max_chars == 12000

RECURSIVE Rep(_, _)
\* The text made of n copies of the character c.
Rep(c, n) ==
    IF n = 0 THEN ""
    ELSE LET half == Rep(c, n \div 2) IN
         IF n % 2 = 0 THEN half \o half ELSE half \o half \o c

\* What fetch_transcript returns: None (NoText) or the stripped text, here a
\* short text, a text of exactly max_chars characters whose last character
\* differs from the others, and that text with one character more.
TranscriptInputs ==
    {NoText, "transcript", Rep("a", max_chars - 1) \o "b",
     Rep("a", max_chars - 1) \o "bc"}

\* Mutant: a transcript of exactly max_chars characters is cut too.
PromptTranscript_AtBudget(transcript) ==
    IF Len(transcript) >= max_chars
    THEN SubSeq(transcript, 1, max_chars) \o "... [truncated]"
    ELSE transcript

\* The transcript as generate_quiz_with_openai puts it into the prompt.
PromptTranscript(transcript) ==
    IF Len(transcript) > max_chars
    THEN SubSeq(transcript, 1, max_chars) \o "... [truncated]"
    ELSE transcript

\* The JSON objects a backend answers with; a key it leaves out is "absent"
\* (has_quiz) or -1 (questions, otherwise the number of questions).
JsonInputs ==
    {[has_quiz |-> "true", questions |-> 5],
     [has_quiz |-> "true", questions |-> 3],
     [has_quiz |-> "true", questions |-> 0],
     [has_quiz |-> "false", questions |-> 0],
     [has_quiz |-> "false", questions |-> 3],
     [has_quiz |-> "absent", questions |-> -1]}

\* What a backend call does: it fails, answers text that is no JSON, or
\* answers one of the JSON objects.
BackendInputs ==
    {[kind |-> "error", json |-> None], [kind |-> "unparseable", json |-> None]}
    \cup {[kind |-> "json", json |-> j] : j \in JsonInputs}

\* The three setdefault calls on the parsed object.
Normalize(j) ==
    [has_quiz |-> (j.has_quiz = "true"),
     reason |-> "given",
     questions |-> IF j.questions < 0 THEN 0 ELSE j.questions,
     analysis_method |-> "none"]

FallbackVerdict(why) ==
    [has_quiz |-> FALSE, reason |-> why, questions |-> 0,
     analysis_method |-> "none"]

\* Mutant: a response that does not parse is answered with the defaults.
generate_quiz_with_openai_Swallows(configured, resp) ==
    IF ~configured THEN [raised |-> TRUE, quiz |-> None]
    ELSE IF resp.kind = "error" THEN [raised |-> TRUE, quiz |-> None]
    ELSE IF resp.kind = "unparseable"
    THEN [raised |-> FALSE, quiz |-> FallbackVerdict("Unknown")]
    ELSE [raised |-> FALSE, quiz |-> Normalize(resp.json)]

\* generate_quiz_with_openai: the client must be configured; every failure
\* of the call or of json.loads is raised again.
generate_quiz_with_openai(configured, resp) ==
    IF ~configured THEN [raised |-> TRUE, quiz |-> None]
    ELSE IF resp.kind # "json" THEN [raised |-> TRUE, quiz |-> None]
    ELSE [raised |-> FALSE, quiz |-> Normalize(resp.json)]

\* Mutant: a response that does not parse is kept as the one question.
generate_quiz_with_gemini_KeepsRaw(configured, resp) ==
    IF ~configured
    THEN FallbackVerdict("Transcript unavailable and Gemini fallback not configured")
    ELSE IF resp.kind = "error" THEN FallbackVerdict("Gemini analysis failed")
    ELSE IF resp.kind = "unparseable"
    THEN [has_quiz |-> TRUE, reason |-> "Unknown", questions |-> 1,
          analysis_method |-> "none"]
    ELSE Normalize(resp.json)

\* generate_quiz_with_gemini: never raises; every failure becomes a verdict
\* with has_quiz false.
generate_quiz_with_gemini(configured, resp) ==
    IF ~configured
    THEN FallbackVerdict("Transcript unavailable and Gemini fallback not configured")
    ELSE IF resp.kind = "error" THEN FallbackVerdict("Gemini analysis failed")
    ELSE IF resp.kind = "unparseable"
    THEN FallbackVerdict("Failed to parse AI response")
    ELSE Normalize(resp.json)

\* Mutant: a failed primary call is followed by the fallback.
analyze_video_content_FallsBack(transcript, openaiKey, geminiKey, resp) ==
    IF transcript # NoText /\ ~generate_quiz_with_openai(openaiKey, resp).raised
    THEN LET q == generate_quiz_with_openai(openaiKey, resp) IN
         [success |-> TRUE, transcript |-> transcript,
          has_quiz |-> q.quiz.has_quiz, quiz_data |-> q.quiz,
          error |-> "", method |-> "openai", invoked |-> {"openai"},
          sent |-> PromptTranscript(transcript)]
    ELSE LET q == generate_quiz_with_gemini(geminiKey, resp) IN
         [success |-> TRUE, transcript |-> transcript,
          has_quiz |-> q.has_quiz,
          quiz_data |-> [q EXCEPT !.analysis_method = "video_analysis"],
          error |-> "", method |-> "gemini",
          sent |-> IF transcript # NoText /\ openaiKey
                   THEN PromptTranscript(transcript) ELSE NoText,
          invoked |-> (IF transcript # NoText /\ openaiKey
                       THEN {"openai"} ELSE {})
                      \cup (IF geminiKey THEN {"gemini"} ELSE {})]

\* The result dict of analyze_video_content; invoked and sent are not keys
\* of the dict: invoked names the backends whose API the call requested (the
\* OpenAI request is made when the client is configured, the Gemini request
\* when GEMINI_API_KEY is set), sent is the transcript in the OpenAI request.
analyze_video_content(transcript, openaiKey, geminiKey, resp) ==
    IF transcript # NoText
    THEN LET q == generate_quiz_with_openai(openaiKey, resp) IN
         IF q.raised
         THEN [success |-> FALSE, transcript |-> transcript,
               has_quiz |-> FALSE, quiz_data |-> None,
               error |-> "OpenAI analysis failed", method |-> "openai",
               invoked |-> IF openaiKey THEN {"openai"} ELSE {},
               sent |-> IF openaiKey THEN PromptTranscript(transcript)
                        ELSE NoText]
         ELSE [success |-> TRUE, transcript |-> transcript,
               has_quiz |-> q.quiz.has_quiz, quiz_data |-> q.quiz,
               error |-> "", method |-> "openai", invoked |-> {"openai"},
               sent |-> PromptTranscript(transcript)]
    ELSE LET q == generate_quiz_with_gemini(geminiKey, resp) IN
         [success |-> TRUE, transcript |-> NoText,
          has_quiz |-> q.has_quiz,
          quiz_data |-> [q EXCEPT !.analysis_method = "video_analysis"],
          error |-> "", method |-> "gemini", sent |-> NoText,
          invoked |-> IF geminiKey THEN {"gemini"} ELSE {}]

\* The parameters analyze_video_content declares, and the keywords the loop
\* of process_course_content passes to it.
AnalyzeParameters == {"video_id", "video_title"}

\* Mutant: the loop passes only keywords that the function declares.
CallKeywords_Declared == {"video_id", "video_title"}

CallKeywords == {"video_id", "video_title", "duration_seconds"}

\* Mutant: the function takes the keywords it is called with.
CallAnalysis_Accepted(transcript, openaiKey, geminiKey, resp) ==
    [raised |-> FALSE,
     analysis |-> analyze_video_content(transcript, openaiKey, geminiKey,
                                        resp)]

\* The call in the loop: the keywords are bound before the body of the
\* function runs, and a keyword the function does not declare raises
\* TypeError at the call.
CallAnalysis(transcript, openaiKey, geminiKey, resp) ==
    IF CallKeywords \subseteq AnalyzeParameters
    THEN [raised |-> FALSE,
          analysis |-> analyze_video_content(transcript, openaiKey,
                                             geminiKey, resp)]
    ELSE [raised |-> TRUE, analysis |-> None]

\* ----------------------------------------------- process_course_content
\* Mutant: every video that is not COMPLETED is selected again.
PendingVideos_RetriesFailed ==
    SelectSeq(SubSeq(VideoOrder, 1, numVideos),
              LAMBDA v : vstore[v].analysis_status # "COMPLETED")

\* The pending videos of the course, in the order the store returns them.
PendingVideos ==
    SelectSeq(SubSeq(VideoOrder, 1, numVideos),
              LAMBDA v : vstore[v].analysis_status = "PENDING")

Range(seq) == {seq[i] : i \in 1..Len(seq)}

has_valid_quiz(analysis) ==
    /\ analysis.quiz_data # None
    /\ analysis.quiz_data.has_quiz
    /\ analysis.quiz_data.questions > 0

\* Mutant: a failed video keeps the payload the analysis returned.
StageOutcome_KeepsPayload(row, v, analysis) ==
    IF analysis.success
    THEN IF analysis.transcript # NoText \/ has_valid_quiz(analysis)
         THEN [row |-> [analysis_status |-> "COMPLETED",
                        transcript_text |-> analysis.transcript,
                        quiz_data |-> IF has_valid_quiz(analysis)
                                      THEN analysis.quiz_data ELSE None,
                        has_quiz |-> has_valid_quiz(analysis)],
               detail |-> [video_id |-> v, status |-> "completed",
                           error |-> "", method |-> analysis.method]]
         ELSE [row |-> [row EXCEPT !.analysis_status = "FAILED",
                                   !.quiz_data = analysis.quiz_data],
               detail |-> [video_id |-> v, status |-> "failed",
                           error |-> "No transcript or quiz data available",
                           method |-> analysis.method]]
    ELSE [row |-> [row EXCEPT !.analysis_status = "FAILED",
                              !.quiz_data = None],
          detail |-> [video_id |-> v, status |-> "failed",
                      error |-> analysis.error, method |-> analysis.method]]

\* The body of the loop for one video: the row as the session holds it
\* afterwards, and the entry of the details list.
StageOutcome(row, v, analysis) ==
    IF analysis.success
    THEN IF analysis.transcript # NoText \/ has_valid_quiz(analysis)
         THEN [row |-> [analysis_status |-> "COMPLETED",
                        transcript_text |-> analysis.transcript,
                        quiz_data |-> IF has_valid_quiz(analysis)
                                      THEN analysis.quiz_data ELSE None,
                        has_quiz |-> has_valid_quiz(analysis)],
               detail |-> [video_id |-> v, status |-> "completed",
                           error |-> "", method |-> analysis.method]]
         ELSE [row |-> [row EXCEPT !.analysis_status = "FAILED",
                                   !.quiz_data = None],
               detail |-> [video_id |-> v, status |-> "failed",
                           error |-> "No transcript or quiz data available",
                           method |-> analysis.method]]
    ELSE [row |-> [row EXCEPT !.analysis_status = "FAILED",
                              !.quiz_data = None],
          detail |-> [video_id |-> v, status |-> "failed",
                      error |-> analysis.error, method |-> analysis.method]]

\* Mutant: the except branch reports the failure but leaves the status.
StageException_LeavesPending(row, v) ==
    [row |-> [row EXCEPT !.quiz_data = None],
     detail |-> [video_id |-> v, status |-> "failed",
                 error |-> "TypeError", method |-> "none"]]

\* Mutant: the entry of a video that raised says completed.
StageException_ReportsCompleted(row, v) ==
    [row |-> [row EXCEPT !.analysis_status = "FAILED", !.quiz_data = None],
     detail |-> [video_id |-> v, status |-> "completed",
                 error |-> "TypeError", method |-> "none"]]

\* The except branch of the loop: the video is failed and its quiz field is
\* set to None; the method of the entry stays None.
StageException(row, v) ==
    [row |-> [row EXCEPT !.analysis_status = "FAILED", !.quiz_data = None],
     detail |-> [video_id |-> v, status |-> "failed",
                 error |-> "TypeError", method |-> "none"]]

\* The try statement of the loop around the call and the outcome rule.
TryAnalysis(row, v, call) ==
    IF call.raised THEN StageException(row, v)
    ELSE StageOutcome(row, v, call.analysis)

\* The flush of db.commit() writes the attributes of a row whose value
\* differs from the loaded one.
Flush(stored, was, now) ==
    [f \in DOMAIN stored |-> IF now[f] # was[f] THEN now[f] ELSE stored[f]]

issuanceVars == <<enrollment, progress, certs, certVars>>

\* Mutant: a run without pending videos goes on to the commit.
BeginRun_CommitsAnyway(b) ==
    /\ bpc[b] = "idle"
    /\ runs < MaxRuns
    /\ runs' = runs + 1
    /\ LET pending == PendingVideos IN
       /\ bpc' = [bpc EXCEPT ![b] =
                    IF pending = <<>> THEN "commit" ELSE "loop"]
       /\ selected' = [selected EXCEPT ![b] = pending]
       /\ loaded' = [loaded EXCEPT ![b] =
                       [v \in Range(pending) |-> vstore[v]]]
       /\ session' = [session EXCEPT ![b] =
                        [v \in Range(pending) |-> vstore[v]]]
       /\ report' = [report EXCEPT ![b] =
                       [NoReport EXCEPT !.total_pending = Len(pending)]]
    /\ UNCHANGED <<numVideos, vstore, issuanceVars, callVars>>

\* The run starts: the pending videos are selected; with none the run
\* returns at once.
BeginRun(b) ==
    /\ bpc[b] = "idle"
    /\ runs < MaxRuns
    /\ runs' = runs + 1
    /\ LET pending == PendingVideos IN
       IF pending = <<>>
       THEN /\ bpc' = [bpc EXCEPT ![b] = "done"]
            /\ report' = [report EXCEPT ![b] = [NoReport EXCEPT !.success = TRUE]]
            /\ UNCHANGED <<selected, loaded, session>>
       ELSE /\ bpc' = [bpc EXCEPT ![b] = "loop"]
            /\ selected' = [selected EXCEPT ![b] = pending]
            /\ loaded' = [loaded EXCEPT ![b] =
                            [v \in Range(pending) |-> vstore[v]]]
            /\ session' = [session EXCEPT ![b] =
                             [v \in Range(pending) |-> vstore[v]]]
            /\ report' = [report EXCEPT ![b] =
                            [NoReport EXCEPT !.total_pending = Len(pending)]]
    /\ UNCHANGED <<numVideos, vstore, issuanceVars, callVars>>

\* Mutant: every pass of the loop commits the video it staged.
AnalyzeNext_WriteThrough(b, transcript, openaiKey, geminiKey, resp) ==
    /\ bpc[b] = "loop"
    /\ LET v == selected[b][Len(report[b].details) + 1]
           out == TryAnalysis(session[b][v], v,
                      CallAnalysis(transcript, openaiKey, geminiKey, resp))
       IN
       /\ session' = [session EXCEPT ![b][v] = out.row]
       /\ vstore' = [vstore EXCEPT ![v] = out.row]
       /\ report' = [report EXCEPT
              ![b].details = Append(@, out.detail),
              ![b].processed = IF out.detail.status = "completed"
                               THEN @ + 1 ELSE @,
              ![b].failed = IF out.detail.status = "failed"
                            THEN @ + 1 ELSE @]
       /\ bpc' = [bpc EXCEPT ![b] =
                    IF Len(report[b].details) + 1 = Len(selected[b])
                    THEN "commit" ELSE "loop"]
    /\ UNCHANGED <<numVideos, selected, loaded, runs, issuanceVars, callVars>>

\* Mutant: the exception of a call leaves the loop and ends the run.
AnalyzeNext_Propagates(b, transcript, openaiKey, geminiKey, resp) ==
    /\ bpc[b] = "loop"
    /\ LET v == selected[b][Len(report[b].details) + 1]
           call == CallAnalysis(transcript, openaiKey, geminiKey, resp)
           out == TryAnalysis(session[b][v], v, call)
       IN
       IF call.raised
       THEN /\ bpc' = [bpc EXCEPT ![b] = "crashed"]
            /\ report' = [report EXCEPT ![b].details =
                             Append(@, [out.detail EXCEPT !.status = "raised"])]
            /\ UNCHANGED session
       ELSE /\ session' = [session EXCEPT ![b][v] = out.row]
            /\ report' = [report EXCEPT
                   ![b].details = Append(@, out.detail),
                   ![b].processed = IF out.detail.status = "completed"
                                    THEN @ + 1 ELSE @,
                   ![b].failed = IF out.detail.status = "failed"
                                 THEN @ + 1 ELSE @]
            /\ bpc' = [bpc EXCEPT ![b] =
                         IF Len(report[b].details) + 1 = Len(selected[b])
                         THEN "commit" ELSE "loop"]
    /\ UNCHANGED <<numVideos, vstore, selected, loaded, runs, issuanceVars,
                   callVars>>

\* One pass of the loop: the next selected video is analysed and its new
\* state is staged in the session.
AnalyzeNext(b, transcript, openaiKey, geminiKey, resp) ==
    /\ bpc[b] = "loop"
    /\ LET v == selected[b][Len(report[b].details) + 1]
           out == TryAnalysis(session[b][v], v,
                      CallAnalysis(transcript, openaiKey, geminiKey, resp))
       IN
       /\ session' = [session EXCEPT ![b][v] = out.row]
       /\ report' = [report EXCEPT
              ![b].details = Append(@, out.detail),
              ![b].processed = IF out.detail.status = "completed"
                               THEN @ + 1 ELSE @,
              ![b].failed = IF out.detail.status = "failed"
                            THEN @ + 1 ELSE @]
       /\ bpc' = [bpc EXCEPT ![b] =
                    IF Len(report[b].details) + 1 = Len(selected[b])
                    THEN "commit" ELSE "loop"]
    /\ UNCHANGED <<numVideos, vstore, selected, loaded, runs, issuanceVars, callVars>>

\* db.commit() after the loop: every staged row reaches the store.
CommitRun(b) ==
    /\ bpc[b] = "commit"
    /\ vstore' = [v \in Videos |->
                    IF v \in Range(selected[b])
                    THEN Flush(vstore[v], loaded[b][v], session[b][v])
                    ELSE vstore[v]]
    /\ bpc' = [bpc EXCEPT ![b] = "done"]
    /\ report' = [report EXCEPT ![b].success = TRUE]
    /\ UNCHANGED <<numVideos, selected, loaded, session, runs, issuanceVars, callVars>>

\* The run is interrupted before its commit: the session is rolled back.
CrashRun(b) ==
    /\ bpc[b] \in {"loop", "commit"}
    /\ bpc' = [bpc EXCEPT ![b] = "crashed"]
    /\ UNCHANGED <<numVideos, vstore, selected, loaded, session, report, runs,
                   issuanceVars, callVars>>

\* The response is delivered and the session is closed.
FinishRun(b) ==
    /\ bpc[b] \in {"done", "crashed"}
    /\ bpc' = [bpc EXCEPT ![b] = "idle"]
    /\ selected' = [selected EXCEPT ![b] = <<>>]
    /\ loaded' = [loaded EXCEPT ![b] = <<>>]
    /\ session' = [session EXCEPT ![b] = <<>>]
    /\ report' = [report EXCEPT ![b] = NoReport]
    /\ UNCHANGED <<numVideos, vstore, runs, issuanceVars, callVars>>

\* ------------------------------------------------------- specification
\* The store and the requests before anything has happened.
InitStore ==
    /\ numVideos = 0
    /\ enrollment = [u \in Users |-> None]
    /\ progress = [u \in Users |-> [v \in Videos |-> None]]
    /\ certs = {}
    /\ vstore = [v \in Videos |-> PendingRow]

InitCalls ==
    /\ pc = [r \in Reqs |-> "idle"]
    /\ user = [r \in Reqs |-> NoUser]
    /\ staged = [r \in Reqs |-> None]
    /\ result = [r \in Reqs |-> NoResult]
    /\ trace = [r \in Reqs |-> <<>>]
    /\ nextId = 1
    /\ calls = 0
    /\ uploads = [u \in Users |-> 0]
    /\ bpc = [b \in Runs |-> "idle"]
    /\ selected = [b \in Runs |-> <<>>]
    /\ loaded = [b \in Runs |-> <<>>]
    /\ session = [b \in Runs |-> <<>>]
    /\ report = [b \in Runs |-> NoReport]
    /\ runs = 0
    /\ caller = [b \in Runs |-> NoUser]

Init ==
    /\ InitStore
    /\ InitCalls
    /\ analysed = None
    /\ verdict = None
    /\ summary = None

Environment ==
    \/ AddVideo
    \/ \E u \in Users, v \in Videos, p \in ProgressInputs :
          RecordProgress(u, v, p)

issue_certificate(r) ==
    \/ \E u \in Users : Begin(r, u)
    \/ CheckExisting(r)
    \/ CheckEligible(r)
    \/ \E ok \in BOOLEAN : Render(r, ok)
    \/ \E ok \in BOOLEAN : Upload(r, ok)
    \/ Commit(r)
    \/ Finish(r)

Next == Environment \/ \E r \in Reqs : issue_certificate(r)

Spec == Init /\ [][Next]_vars

\* Calls made in sequence: a call starts only when no other call is under way.
BeginSeq(r, u) ==
    /\ \A q \in Reqs : pc[q] \in {"idle", "done", "failed"}
    /\ Begin(r, u)

IssueSeq(r) ==
    \/ \E u \in Users : BeginSeq(r, u)
    \/ CheckExisting(r)
    \/ CheckEligible(r)
    \/ \E ok \in BOOLEAN : Render(r, ok)
    \/ \E ok \in BOOLEAN : Upload(r, ok)
    \/ Commit(r)
    \/ Finish(r)

NextSeq == Environment \/ \E r \in Reqs : IssueSeq(r)

SpecSeq == Init /\ [][NextSeq]_vars

\* The batch analysis of a course, with runs that may overlap.
process_course_content(b) ==
    \/ BeginRun(b)
    \/ \E t \in TranscriptInputs, ok \in BOOLEAN, gk \in BOOLEAN,
          resp \in BackendInputs : AnalyzeNext(b, t, ok, gk, resp)
    \/ CommitRun(b)
    \/ CrashRun(b)
    \/ FinishRun(b)

NextBatch == AddVideo \/ \E b \in Runs : process_course_content(b)

SpecBatch == Init /\ [][NextBatch]_vars

\* The steps a run takes by itself once its awaited call has returned or
\* raised: the next pass of the loop and the commit after the loop.
RunStep(b) ==
    \/ \E t \in TranscriptInputs, ok \in BOOLEAN, gk \in BOOLEAN,
          resp \in BackendInputs : AnalyzeNext(b, t, ok, gk, resp)
    \/ CommitRun(b)

\* The runs under the event loop, which resumes every coroutine whose awaited
\* call has completed.
SpecBatchLive == SpecBatch /\ \A b \in Runs : WF_vars(RunStep(b))

\* analyze_video_content called on its own with every transcript, key
\* setting and backend answer, and the outcome rule of the loop applied to
\* what it returns for a pending video.
programVars == <<numVideos, enrollment, progress, certs, certVars, batchVars>>

InitAnalysis ==
    /\ InitStore
    /\ InitCalls
    /\ verdict = None
    /\ summary = None
    /\ \E t \in TranscriptInputs, ok \in BOOLEAN, gk \in BOOLEAN,
          resp \in BackendInputs :
          analysed = [state |-> "called", transcript |-> t, openaiKey |-> ok,
                      geminiKey |-> gk, resp |-> resp, outcome |-> None,
                      out |-> None]

Analyze ==
    /\ analysed # None
    /\ analysed.state = "called"
    /\ analysed' = [analysed EXCEPT
           !.state = "returned",
           !.outcome = analyze_video_content(analysed.transcript,
                           analysed.openaiKey, analysed.geminiKey,
                           analysed.resp)]
    /\ UNCHANGED <<programVars, verdict, summary, caller>>

StageAnalysis ==
    /\ analysed # None
    /\ analysed.state = "returned"
    /\ analysed' = [analysed EXCEPT
           !.state = "staged",
           !.out = StageOutcome(PendingRow, VideoOrder[1], analysed.outcome)]
    /\ UNCHANGED <<programVars, verdict, summary, caller>>

NextAnalysis == Analyze \/ StageAnalysis

SpecAnalysis == InitAnalysis /\ [][NextAnalysis]_vars

\* check_eligibility called on its own over every enrollment, course size
\* and set of progress records; a progress record belongs to an enrollment
\* and to a video of the course.
InitEligibility ==
    /\ InitCalls
    /\ certs = {}
    /\ vstore = [v \in Videos |-> PendingRow]
    /\ analysed = None
    /\ verdict = None
    /\ summary = None
    /\ numVideos \in 0..MaxVideos
    /\ enrollment \in [Users ->
           {None, [is_completed |-> FALSE, certificate_url |-> NoUrl]}]
    /\ progress \in [Users -> [Videos -> ProgressRecords \cup {None}]]
    /\ \A u \in Users, v \in Videos :
          enrollment[u] = None \/ v \notin CourseVideos
              => progress[u][v] = None

Evaluate(u) ==
    /\ verdict = None
    /\ verdict' = [user |-> u, out |-> check_eligibility(u)]
    /\ UNCHANGED <<programVars, analysed, summary, caller>>

NextEligibility == \E u \in Users : Evaluate(u)

SpecEligibility == InitEligibility /\ [][NextEligibility]_vars

\* get_analysis_status called on its own over every course of rows that
\* the loop of process_course_content can stage.
StoredRows ==
    {PendingRow, StageException(PendingRow, VideoOrder[1]).row}
    \cup {StageOutcome(PendingRow, VideoOrder[1],
              analyze_video_content(t, ok, gk, resp)).row :
              t \in TranscriptInputs, ok \in BOOLEAN, gk \in BOOLEAN,
              resp \in BackendInputs}

RECURSIVE StatusCountsUpTo(_)
\* Mutant: every COMPLETED video is counted as one with a quiz.
StatusCountsUpTo_QuizUnchecked(n) ==
    IF n = 0
    THEN [pending |-> 0, completed |-> 0, failed |-> 0, total |-> numVideos,
          with_quiz |-> 0]
    ELSE LET c == StatusCountsUpTo(n - 1)
             video == vstore[VideoOrder[n]]
         IN
         IF video.analysis_status = "PENDING"
         THEN [c EXCEPT !.pending = @ + 1]
         ELSE IF video.analysis_status = "COMPLETED"
         THEN [c EXCEPT !.completed = @ + 1, !.with_quiz = @ + 1]
         ELSE IF video.analysis_status = "FAILED"
         THEN [c EXCEPT !.failed = @ + 1]
         ELSE c

\* The counters after the first n videos of the loop.
StatusCountsUpTo(n) ==
    IF n = 0
    THEN [pending |-> 0, completed |-> 0, failed |-> 0, total |-> numVideos,
          with_quiz |-> 0]
    ELSE LET c == StatusCountsUpTo(n - 1)
             video == vstore[VideoOrder[n]]
         IN
         IF video.analysis_status = "PENDING"
         THEN [c EXCEPT !.pending = @ + 1]
         ELSE IF video.analysis_status = "COMPLETED"
         THEN [c EXCEPT !.completed = @ + 1,
                        !.with_quiz = IF video.has_quiz THEN @ + 1 ELSE @]
         ELSE IF video.analysis_status = "FAILED"
         THEN [c EXCEPT !.failed = @ + 1]
         ELSE c

get_analysis_status == StatusCountsUpTo(numVideos)

InitStatus ==
    /\ InitCalls
    /\ enrollment = [u \in Users |-> None]
    /\ progress = [u \in Users |-> [v \in Videos |-> None]]
    /\ certs = {}
    /\ analysed = None
    /\ verdict = None
    /\ summary = None
    /\ numVideos \in 0..MaxVideos
    /\ vstore \in [Videos -> StoredRows]
    /\ \A v \in Videos : v \notin CourseVideos => vstore[v] = PendingRow

GetStatus ==
    /\ summary = None
    /\ summary' = get_analysis_status
    /\ UNCHANGED <<programVars, analysed, verdict, caller>>

NextStatus == GetStatus

SpecStatus == InitStatus /\ [][NextStatus]_vars

\* The analyze endpoint: the caller is checked against the creator of the
\* course before process_course_content is called for the request.
creator_id == "alice"

\* Mutant: every caller passes the ownership check.
IsCreator_AnyUser(u) == TRUE

IsCreator(u) == creator_id = u

\* The request arrives; a caller who is not the creator gets HTTP 403.
Authorize(b, u) ==
    /\ bpc[b] = "idle"
    /\ caller[b] = NoUser
    /\ caller' = [caller EXCEPT ![b] = u]
    /\ IF IsCreator(u)
       THEN UNCHANGED bpc
       ELSE bpc' = [bpc EXCEPT ![b] = "forbidden"]
    /\ UNCHANGED <<numVideos, vstore, selected, loaded, session, report, runs,
                   issuanceVars, analysed, verdict, summary>>

\* The steps of process_course_content made for an admitted request.
Process(b) ==
    /\ caller[b] # NoUser
    /\ \/ BeginRun(b)
       \/ \E t \in TranscriptInputs, ok \in BOOLEAN, gk \in BOOLEAN,
             resp \in BackendInputs : AnalyzeNext(b, t, ok, gk, resp)
       \/ CommitRun(b)
       \/ CrashRun(b)

\* The response is delivered, a report or an error, and the session closed.
Respond(b) ==
    /\ bpc[b] \in {"done", "crashed", "forbidden"}
    /\ bpc' = [bpc EXCEPT ![b] = "idle"]
    /\ caller' = [caller EXCEPT ![b] = NoUser]
    /\ selected' = [selected EXCEPT ![b] = <<>>]
    /\ loaded' = [loaded EXCEPT ![b] = <<>>]
    /\ session' = [session EXCEPT ![b] = <<>>]
    /\ report' = [report EXCEPT ![b] = NoReport]
    /\ UNCHANGED <<numVideos, vstore, runs, issuanceVars, analysed, verdict,
                   summary>>

analyze_course(b) ==
    \/ \E u \in Users : Authorize(b, u)
    \/ Process(b)
    \/ Respond(b)

NextEndpoint == AddVideo \/ \E b \in Runs : analyze_course(b)

SpecEndpoint == Init /\ [][NextEndpoint]_vars

\* ================================================================ claims

\* C1: in every reachable state the store holds at most one Certificate per
\* (user, course) pair, whatever the interleaving of issue_certificate calls.
C1_AtMostOneCertificatePerPair ==
    \A c1 \in certs, c2 \in certs : c1.user_id = c2.user_id => c1.id = c2.id

\* C2: two concurrent calls for the same pair never both pass the existence
\* check and both perform the render and upload.
C2_NoTwoUploadsInFlight ==
    \A r1 \in Reqs, r2 \in Reqs :
        r1 # r2 /\ user[r1] = user[r2]
            => ~(pc[r1] = "commit" /\ pc[r2] = "commit")

\* C3: of calls made in sequence for the same pair, every successful one
\* returns the identifier of the one stored certificate of the pair, for which
\* exactly one upload was performed; a call that found it has not rendered.
C3_SequentialIdempotence ==
    /\ \A r \in Reqs : pc[r] = "done" =>
          /\ \A c \in CertsOf(user[r]) : c.id = result[r].cert
          /\ CertsOf(user[r]) # {}
          /\ uploads[user[r]] = 1
    /\ \A r1 \in Reqs, r2 \in Reqs :
          pc[r1] = "done" /\ pc[r2] = "done" /\ user[r1] = user[r2]
              => /\ result[r1].cert = result[r2].cert
                 /\ r1 # r2 => ~(Did(r1, "render") /\ Did(r2, "render"))

C3_Witness ==
    \E r1 \in Reqs, r2 \in Reqs :
        /\ r1 # r2
        /\ pc[r1] = "done" /\ pc[r2] = "done"
        /\ user[r1] = user[r2]
        /\ Did(r1, "render") /\ ~Did(r2, "render")

\* C4: a call whose render or upload fails writes nothing: the failing step
\* leaves the certificates and the enrollments as they are, and the row the
\* call created is never among the stored certificates.
C4_FailedIssuancePersistsNothing ==
    /\ [](\A r \in Reqs :
            pc[r] = "failed" /\ staged[r] # None
                => \A c \in certs : c.id # staged[r].id)
    /\ [][\A r \in Reqs :
            pc[r] \in {"render", "upload"} /\ pc'[r] = "failed"
                => certs' = certs /\ enrollment' = enrollment]_vars

C4_Witness ==
    \E r \in Reqs :
        /\ pc[r] = "failed"
        /\ Did(r, "upload")
        /\ CertsOf(user[r]) = {}
        /\ ~enrollment[user[r]].is_completed

\* C5: an ineligible call without a certificate fails with the whole list of
\* check_eligibility, which names every video that is not watched and passed,
\* and it creates no certificate, renders nothing and leaves the enrollment.
C5_IneligibleFailsWithFullList ==
    /\ [](\A r \in Reqs :
            result[r].kind = "not eligible"
                => /\ pc[r] = "failed"
                   /\ staged[r] = None
                   /\ result[r].missing # <<>>
                   /\ ~Did(r, "render") /\ ~Did(r, "upload")
                   /\ ~Did(r, "commit"))
    /\ [][\A r \in Reqs :
            pc[r] = "eligibility" /\ pc'[r] = "failed" =>
                /\ result'[r].kind = "not eligible"
                /\ result'[r].missing = check_eligibility(user[r]).missing
                /\ enrollment[user[r]] # None =>
                      \A v \in CourseVideos :
                          progress[user[r]][v] \notin
                              {[watch_status |-> "WATCHED",
                                is_quiz_passed |-> TRUE]}
                          => \E i \in 1..Len(result'[r].missing) :
                                 result'[r].missing[i][2] = v
                /\ certs' = certs
                /\ enrollment' = enrollment
                /\ nextId' = nextId]_vars

C5_Witness ==
    \E r \in Reqs :
        /\ result[r].kind = "not eligible"
        /\ Len(result[r].missing) >= 3

\* C6: a render or upload happens only in a call whose existence check found
\* no certificate and whose eligibility check said eligible, and the steps of
\* every call are a prefix of existence, eligibility, render, upload, commit.
C6_ChecksPrecedeSideEffects ==
    \A r \in Reqs :
        /\ IsPrefix(Steps(r),
                    <<"existence", "eligibility", "render", "upload", "commit">>)
        /\ Did(r, "render") \/ pc[r] \in {"render", "upload", "commit"}
              => /\ trace[r][1] = <<"existence", "none">>
                 /\ trace[r][2] = <<"eligibility", "eligible">>
        /\ Did(r, "upload") => trace[r][3] = <<"render", "ok">>
        /\ Did(r, "commit") => trace[r][4] = <<"upload", "ok">>

C6_Witness ==
    \E r \in Reqs : pc[r] = "done" /\ Len(trace[r]) = 5

C8_CertificateAndEnrollmentTogether ==
    \A u \in Users :
        /\ (enrollment[u] # None /\ enrollment[u].is_completed)
              <=> CertsOf(u) # {}
        /\ CertsOf(u) # {} =>
              /\ enrollment[u].certificate_url # NoUrl
              /\ \E c \in CertsOf(u) :
                    c.pdf_url = enrollment[u].certificate_url

C8_Witness ==
    \E u \in Users : CertsOf(u) # {} /\ enrollment[u] # None
                         /\ enrollment[u].is_completed


\* C9: the stored analysis status of a video only ever goes from PENDING to
\* COMPLETED or from PENDING to FAILED: a COMPLETED or FAILED video keeps its
\* status and no video is set to PENDING.
C9_StatusOnlyLeavesPending ==
    [][\A v \in Videos :
          vstore'[v].analysis_status # vstore[v].analysis_status
              => /\ vstore[v].analysis_status = "PENDING"
                 /\ vstore'[v].analysis_status \in {"COMPLETED", "FAILED"}]_vars

C9_Witness ==
    \E b1 \in Runs, b2 \in Runs, v \in Videos :
        /\ b1 # b2
        /\ bpc[b1] = "done" /\ bpc[b2] = "done"
        /\ v \in Range(selected[b1]) \cap Range(selected[b2])
        /\ vstore[v].analysis_status = "FAILED"

\* C10: the store changes only at the commit after the loop of a run, which
\* writes every video the run selected in that one step; until then, and
\* after an interruption, a selected video that is still PENDING is stored
\* exactly as the run loaded it.
C10_BatchCommitIsAtomic ==
    /\ [](\A b \in Runs :
            bpc[b] \in {"loop", "commit", "crashed"} =>
                \A v \in Range(selected[b]) :
                    vstore[v].analysis_status = "PENDING"
                        => vstore[v] = loaded[b][v])
    /\ [][\A v \in Videos :
            vstore'[v] # vstore[v] =>
                \E b \in Runs :
                    /\ bpc[b] = "commit" /\ bpc'[b] = "done"
                    /\ Len(report[b].details) = Len(selected[b])
                    /\ v \in Range(selected[b])
                    /\ \A w \in Range(selected[b]) :
                          /\ vstore'[w].analysis_status =
                                 session[b][w].analysis_status
                          /\ vstore[w] = loaded[b][w]
                                 => vstore'[w] = session[b][w]]_vars

C10_Witness ==
    \E b \in Runs :
        /\ bpc[b] = "crashed"
        /\ Len(selected[b]) = 2
        /\ Len(report[b].details) = 2
        /\ \A v \in Range(selected[b]) :
              /\ vstore[v] = PendingRow
              /\ session[b][v].analysis_status # "PENDING"

\* C11: a call of analyze_video_content whose transcript fetch gave a text
\* takes the OpenAI path (method openai, the text in the result) and does
\* not request the Gemini backend, whether the OpenAI call succeeds or not.
C11_TranscriptTakesPrimaryPath ==
    analysed # None /\ analysed.state # "called"
        /\ analysed.transcript # NoText
        => /\ analysed.outcome.method = "openai"
           /\ analysed.outcome.transcript = analysed.transcript
           /\ "gemini" \notin analysed.outcome.invoked

C11_Witness ==
    /\ analysed # None
    /\ analysed.state = "returned"
    /\ analysed.transcript # NoText
    /\ analysed.geminiKey
    /\ analysed.resp.kind = "error"
    /\ ~analysed.outcome.success

C14_ExampleRunReport ==
    [][\A b \in Runs, k \in BOOLEAN :
          LET v == selected[b][Len(report[b].details) + 1] IN
          /\ AnalyzeNext(b, "transcript", TRUE, k,
                 [kind |-> "json",
                  json |-> [has_quiz |-> "true", questions |-> 5]])
                => /\ session'[b][v].analysis_status = "COMPLETED"
                   /\ session'[b][v].quiz_data # None
                   /\ report'[b].processed = report[b].processed + 1
          /\ AnalyzeNext(b, NoText, k, TRUE,
                 [kind |-> "json",
                  json |-> [has_quiz |-> "false", questions |-> 0]])
                => /\ session'[b][v].analysis_status = "FAILED"
                   /\ session'[b][v].quiz_data = None
                   /\ report'[b].failed = report[b].failed + 1]_vars

\* C15: an exception while one video is analysed stays with that video: the
\* pass records the video as failed and the loop goes on, so that a run that
\* reaches its commit has one entry, in order, for every video it selected.
C15_FailureStaysWithItsVideo ==
    /\ [](\A b \in Runs :
            /\ \A i \in 1..Len(report[b].details) :
                  /\ report[b].details[i].video_id = selected[b][i]
                  /\ report[b].details[i].status \in {"completed", "failed"}
                  /\ report[b].details[i].status = "failed"
                        <=> session[b][selected[b][i]].analysis_status
                                = "FAILED"
            /\ bpc[b] \in {"commit", "done"} =>
                  /\ Len(report[b].details) = Len(selected[b])
                  /\ report[b].processed + report[b].failed
                         = Len(selected[b]))
    /\ [][\A b \in Runs, t \in TranscriptInputs, ok \in BOOLEAN,
            gk \in BOOLEAN, resp \in BackendInputs :
            AnalyzeNext(b, t, ok, gk, resp)
                /\ CallAnalysis(t, ok, gk, resp).raised
                => /\ bpc'[b] \in {"loop", "commit"}
                   /\ report'[b].failed = report[b].failed + 1
                   /\ Len(report'[b].details) = Len(report[b].details) + 1
                   /\ vstore' = vstore]_vars

C15_Witness ==
    \E b \in Runs :
        /\ bpc[b] = "commit"
        /\ Len(selected[b]) = 2
        /\ report[b].failed = 2
        /\ \A i \in 1..2 : report[b].details[i].status = "failed"

\* C16: with a transcript and a primary call that fails (an error of the
\* request, a response that does not parse, or no configured client) the
\* outcome has success false, the method openai and an error text, the
\* Gemini backend is not requested, and the outcome rule fails the video.
C16_PrimaryFailureIsFinal ==
    analysed # None /\ analysed.state # "called"
        /\ analysed.transcript # NoText
        /\ (analysed.resp.kind \in {"error", "unparseable"}
               \/ ~analysed.openaiKey)
        => /\ ~analysed.outcome.success
           /\ analysed.outcome.method = "openai"
           /\ analysed.outcome.error # ""
           /\ "gemini" \notin analysed.outcome.invoked
           /\ analysed.state = "staged"
                 => /\ analysed.out.row.analysis_status = "FAILED"
                    /\ analysed.out.detail.status = "failed"

C16_Witness ==
    /\ analysed # None
    /\ analysed.state = "staged"
    /\ analysed.transcript # NoText
    /\ analysed.openaiKey /\ analysed.geminiKey
    /\ analysed.resp.kind = "unparseable"
    /\ analysed.out.row.analysis_status = "FAILED"

\* C17: without a transcript and without a configured fallback the outcome
\* has success false and an error saying the fallback is unavailable, and the
\* Gemini backend is not requested.
C17_FallbackUnavailableFails ==
    analysed # None /\ analysed.state # "called"
        /\ analysed.transcript = NoText /\ ~analysed.geminiKey
        => /\ ~analysed.outcome.success
           /\ analysed.outcome.error # ""
           /\ "gemini" \notin analysed.outcome.invoked

\* C18: a response that does not parse ends as a failed request does, on
\* both paths: the video is staged FAILED with a null quiz, the same row and
\* the same entry status as when the backend call had thrown.
C18_MalformedIsHandledAsFailure ==
    analysed # None /\ analysed.state = "staged"
        /\ analysed.resp.kind = "unparseable"
        => LET thrown ==
                   StageOutcome(PendingRow, VideoOrder[1],
                       analyze_video_content(analysed.transcript,
                           analysed.openaiKey, analysed.geminiKey,
                           [kind |-> "error", json |-> None]))
           IN /\ analysed.out.row.analysis_status = "FAILED"
              /\ analysed.out.row.quiz_data = None
              /\ ~analysed.out.row.has_quiz
              /\ analysed.out.detail.status = "failed"
              /\ analysed.out.row = thrown.row
              /\ analysed.out.detail.status = thrown.detail.status

C18_Witness ==
    /\ analysed # None
    /\ analysed.state = "staged"
    /\ analysed.transcript = NoText
    /\ analysed.geminiKey
    /\ analysed.resp.kind = "unparseable"
    /\ analysed.out.row.quiz_data = None

\* C19: check_eligibility answers eligible exactly when the user is
\* enrolled, the course has a video and every video of the course has a
\* record that is WATCHED with the quiz passed; and it answers eligible
\* exactly when its list of reasons is empty.
C19_EligibleIffAllWatchedAndPassed ==
    verdict # None =>
        LET u == verdict.user IN
        /\ verdict.out.eligible <=>
              /\ enrollment[u] # None
              /\ numVideos >= 1
              /\ \A v \in CourseVideos :
                    /\ progress[u][v] # None
                    /\ progress[u][v].watch_status = "WATCHED"
                    /\ progress[u][v].is_quiz_passed
        /\ verdict.out.eligible <=> verdict.out.missing = <<>>

C19_Witness ==
    /\ verdict # None
    /\ verdict.out.eligible
    /\ numVideos = 2

\* C20: for an enrolled user and a course with videos the list of reasons
\* has exactly one reason for each video without a record, one for each
\* recorded video that is not WATCHED and one for each recorded video whose
\* quiz is not passed, each naming its video, and nothing else.
C20_EveryViolationIsListed ==
    verdict # None /\ enrollment[verdict.user] # None /\ numVideos >= 1 =>
        LET u == verdict.user
            m == verdict.out.missing
            Count(kind, v) ==
                Cardinality({i \in 1..Len(m) : m[i] = <<kind, v>>})
            Recorded(v) == v \in CourseVideos /\ progress[u][v] # None
        IN
        /\ \A i \in 1..Len(m) :
              /\ m[i][1] \in {"not started", "not fully watched",
                              "quiz not passed"}
              /\ m[i][2] \in CourseVideos
        /\ \A v \in Videos :
              /\ Count("not started", v) =
                    IF v \in CourseVideos /\ progress[u][v] = None
                    THEN 1 ELSE 0
              /\ Count("not fully watched", v) =
                    IF Recorded(v) /\ progress[u][v].watch_status # "WATCHED"
                    THEN 1 ELSE 0
              /\ Count("quiz not passed", v) =
                    IF Recorded(v) /\ ~progress[u][v].is_quiz_passed
                    THEN 1 ELSE 0

C20_Witness ==
    /\ verdict # None
    /\ numVideos = 2
    /\ progress[verdict.user]["v1"] =
           [watch_status |-> "IN_PROGRESS", is_quiz_passed |-> TRUE]
    /\ progress[verdict.user]["v2"] =
           [watch_status |-> "WATCHED", is_quiz_passed |-> FALSE]
    /\ Len(verdict.out.missing) = 2

\* C21: check_eligibility returns early in two cases only, each with
\* eligible false and exactly one reason: the user is not enrolled, whatever
\* the course holds, and the user is enrolled in a course without videos;
\* in every other case the reasons are those of the videos.
C21_ShortCircuitsOnlyTwice ==
    verdict # None =>
        LET u == verdict.user
            out == verdict.out
        IN
        /\ enrollment[u] = None
              => out = [eligible |-> FALSE,
                        missing |-> <<<<"not enrolled", 0>>>>]
        /\ enrollment[u] # None /\ numVideos = 0
              => out = [eligible |-> FALSE,
                        missing |-> <<<<"no videos", 0>>>>]
        /\ enrollment[u] # None /\ numVideos >= 1
              => \A i \in 1..Len(out.missing) :
                     out.missing[i][1] \notin {"not enrolled", "no videos"}

C21_Witness ==
    /\ verdict # None
    /\ enrollment[verdict.user] = None
    /\ numVideos = 0
    /\ Len(verdict.out.missing) = 1

\* C22: a run that finds no PENDING video returns at once a success report
\* with processed 0 and failed 0: it analyses nothing, stages nothing and
\* leaves the store as it is, without a commit.
C22_NothingPendingNothingDone ==
    /\ [](\A b \in Runs :
            bpc[b] = "done" /\ selected[b] = <<>>
                => report[b] = [NoReport EXCEPT !.success = TRUE])
    /\ [][\A b \in Runs :
            bpc[b] = "idle" /\ bpc'[b] # "idle" /\ PendingVideos = <<>>
                => /\ bpc'[b] = "done"
                   /\ vstore' = vstore
                   /\ selected'[b] = <<>>
                   /\ session'[b] = <<>>
                   /\ report'[b].success
                   /\ report'[b].processed = 0
                   /\ report'[b].failed = 0
                   /\ report'[b].details = <<>>]_vars

C22_Witness ==
    \E b \in Runs :
        /\ bpc[b] = "done"
        /\ selected[b] = <<>>
        /\ report[b].success
        /\ numVideos = 2
        /\ \A v \in CourseVideos : vstore[v].analysis_status # "PENDING"

\* C23: the report of a completed run over pending videos has processed +
\* failed = total_pending, one entry per selected video in the order of the
\* selection, and every entry says completed or failed as the video was
\* staged.
C23_ReportMatchesSelection ==
    \A b \in Runs :
        bpc[b] = "done" /\ selected[b] # <<>> =>
            LET d == report[b].details
                Entries(st) == {i \in 1..Len(d) : d[i].status = st}
            IN
            /\ report[b].success
            /\ report[b].total_pending = Len(selected[b])
            /\ report[b].processed + report[b].failed
                   = report[b].total_pending
            /\ Len(d) = Len(selected[b])
            /\ report[b].processed = Cardinality(Entries("completed"))
            /\ report[b].failed = Cardinality(Entries("failed"))
            /\ \A i \in 1..Len(d) :
                  /\ d[i].video_id = selected[b][i]
                  /\ d[i].status = "completed"
                        <=> session[b][selected[b][i]].analysis_status
                                = "COMPLETED"
                  /\ d[i].status = "failed"
                        <=> session[b][selected[b][i]].analysis_status
                                = "FAILED"

C23_Witness ==
    \E b \in Runs :
        /\ bpc[b] = "done"
        /\ Len(selected[b]) = 2
        /\ report[b].total_pending = 2
        /\ report[b].failed = 2

C25_RerunSkipsTerminalVideos ==
    /\ [](\A b \in Runs :
            /\ \A v \in Range(selected[b]) :
                  loaded[b][v].analysis_status = "PENDING"
            /\ \A i \in 1..Len(report[b].details) :
                  report[b].details[i].video_id \in Range(selected[b]))
    /\ [][\A b \in Runs :
            bpc[b] = "idle" /\ bpc'[b] # "idle"
                => /\ Range(selected'[b]) =
                          {v \in CourseVideos :
                              vstore[v].analysis_status = "PENDING"}
                   /\ Range(selected'[b]) = {}
                         => /\ vstore' = vstore
                            /\ report'[b].total_pending = 0
                            /\ report'[b].processed = 0
                            /\ report'[b].failed = 0]_vars

C25_Witness ==
    \E b1 \in Runs, b2 \in Runs :
        /\ bpc[b1] = "done" /\ selected[b1] # <<>>
        /\ bpc[b2] = "done" /\ selected[b2] = <<>>
        /\ \A v \in Range(selected[b1]) :
              vstore[v].analysis_status = "FAILED"
        /\ \A v \in CourseVideos : vstore[v].analysis_status # "PENDING"

\* C26: get_analysis_status changes no video, and its counts satisfy
\* pending + completed + failed = total, with_quiz <= completed, and
\* with_quiz is the number of COMPLETED videos whose has_quiz is true.
C26_StatusSummaryIsPureRead ==
    /\ [](summary # None =>
            LET Having(st) ==
                    {v \in CourseVideos : vstore[v].analysis_status = st}
            IN
            /\ summary.total = numVideos
            /\ summary.pending + summary.completed + summary.failed
                   = summary.total
            /\ summary.pending = Cardinality(Having("PENDING"))
            /\ summary.completed = Cardinality(Having("COMPLETED"))
            /\ summary.failed = Cardinality(Having("FAILED"))
            /\ summary.with_quiz <= summary.completed
            /\ summary.with_quiz =
                   Cardinality({v \in Having("COMPLETED") :
                                   vstore[v].has_quiz}))
    /\ [][summary' # summary
            => vstore' = vstore /\ numVideos' = numVideos]_vars

C26_Witness ==
    /\ summary # None
    /\ summary.total = 2
    /\ summary.completed = 2
    /\ summary.with_quiz = 1

\* C27: a call made after a call of the same pair failed in its render or
\* upload runs as a first attempt: when it succeeds it has checked existence
\* and eligibility, rendered, uploaded and committed, or it has found the
\* certificate that such a call committed; the pair has exactly one
\* certificate, never the row of the failed call, and the enrollment is
\* completed; and no call repeats a step: a failed step is the last step of
\* its call.
C27_RetryIsAFreshAttempt ==
    /\ \A r1 \in Reqs, r2 \in Reqs :
          /\ r1 # r2
          /\ user[r1] = user[r2]
          /\ pc[r1] = "failed"
          /\ Did(r1, "render")
          /\ pc[r2] = "done"
          => /\ \/ trace[r2] = <<<<"existence", "none">>,
                                 <<"eligibility", "eligible">>,
                                 <<"render", "ok">>, <<"upload", "ok">>,
                                 <<"commit", "ok">>>>
                \/ trace[r2] = <<<<"existence", "found">>>>
             /\ Cardinality(CertsOf(user[r2])) = 1
             /\ \A c \in CertsOf(user[r2]) :
                   /\ c.id = result[r2].cert
                   /\ c.id # staged[r1].id
                   /\ c.pdf_url = UploadUrl(c.id)
             /\ enrollment[user[r2]] # None
             /\ enrollment[user[r2]].is_completed
             /\ uploads[user[r2]] = 1
    /\ \A r \in Reqs : \A i \in 1..Len(trace[r]) :
          /\ trace[r][i][2] = "failed" => i = Len(trace[r]) /\ pc[r] = "failed"
          /\ \A j \in 1..Len(trace[r]) :
                trace[r][i][1] = trace[r][j][1] => i = j

C27_Witness ==
    \E r1 \in Reqs, r2 \in Reqs :
        /\ r1 # r2
        /\ user[r1] = user[r2]
        /\ pc[r1] = "failed"
        /\ trace[r1][Len(trace[r1])] = <<"upload", "failed">>
        /\ pc[r2] = "done"
        /\ Did(r2, "commit")

\* C28: a request of a caller who is not the creator of the course is
\* answered Forbidden before any processing: its run never selects, analyses,
\* stages or reports, process_course_content is not entered for it, and the
\* steps of the refused request change no video.
C28_NonCreatorIsRefused ==
    /\ [](\A b \in Runs :
            /\ caller[b] \notin {NoUser, creator_id} =>
                  /\ bpc[b] = "forbidden"
                  /\ selected[b] = <<>>
                  /\ session[b] = <<>>
                  /\ report[b] = NoReport
            /\ bpc[b] \in {"loop", "commit", "done", "crashed"} =>
                  caller[b] = creator_id)
    /\ [][\A b \in Runs :
            /\ bpc'[b] # bpc[b]
            /\ bpc[b] = "forbidden" \/ bpc'[b] = "forbidden"
            => /\ vstore' = vstore
               /\ runs' = runs
               /\ session' = [session EXCEPT ![b] = <<>>]]_vars

C28_Witness ==
    \E b \in Runs :
        /\ bpc[b] = "forbidden"
        /\ caller[b] = "bob"
        /\ numVideos = 2
        /\ Len(PendingVideos) = 2

\* C29: the transcript in the request to OpenAI is the whole transcript when
\* it has at most max_chars characters, and otherwise its first max_chars
\* characters followed by "... [truncated]"; the result of the analysis and
\* the COMPLETED row staged from it carry the whole transcript.
C29_TruncationOnlyInPrompt ==
    analysed # None /\ analysed.state \in {"returned", "staged"}
    /\ analysed.transcript # NoText
    => LET t == analysed.transcript
           text == analysed.outcome.sent
       IN
       /\ "openai" \in analysed.outcome.invoked =>
             /\ Len(t) <= max_chars => text = t
             /\ Len(t) > max_chars =>
                   /\ Len(text) = max_chars + Len("... [truncated]")
                   /\ SubSeq(text, 1, max_chars) = SubSeq(t, 1, max_chars)
                   /\ SubSeq(text, max_chars + 1, Len(text))
                          = "... [truncated]"
       /\ analysed.outcome.transcript = t
       /\ analysed.state = "staged"
          /\ analysed.out.row.analysis_status = "COMPLETED"
          => analysed.out.row.transcript_text = t

C29_Witness ==
    /\ analysed # None
    /\ analysed.state = "staged"
    /\ Len(analysed.transcript) = max_chars + 1
    /\ "openai" \in analysed.outcome.invoked
    /\ Len(analysed.outcome.sent) > Len(analysed.transcript)
    /\ analysed.out.row.analysis_status = "COMPLETED"
    /\ Len(analysed.out.row.transcript_text) = max_chars + 1

\* C30: with runs of process_course_content that overlap in any way, a video
\* stored as COMPLETED or FAILED is never written differently again: no step
\* changes its status, its transcript or its quiz.
C30_TerminalRowsAreStable ==
    [][\A v \in Videos :
          vstore[v].analysis_status \in {"COMPLETED", "FAILED"}
              => vstore'[v] = vstore[v]]_vars

C30_Witness ==
    \E b1 \in Runs, b2 \in Runs :
        /\ b1 # b2
        /\ bpc[b1] = "done" /\ bpc[b2] = "done"
        /\ Len(selected[b1]) = 2
        /\ selected[b2] = selected[b1]
        /\ report[b1].failed = 2 /\ report[b2].failed = 2
        /\ \A v \in Range(selected[b1]) :
              vstore[v].analysis_status = "FAILED"

\* C31: when every awaited call returns or raises, a run that has selected
\* its videos ends, with its report or with an exception; and of a run that
\* returned its report no selected video is stored as PENDING: each is
\* COMPLETED or FAILED.
C31_RunsEndWithNoneLeftPending ==
    /\ \A b \in Runs :
          bpc[b] \in {"loop", "commit"} ~> bpc[b] \in {"done", "crashed"}
    /\ [](\A b \in Runs :
            bpc[b] = "done" =>
                /\ report[b].success
                /\ Len(report[b].details) = Len(selected[b])
                /\ \A v \in Range(selected[b]) :
                      vstore[v].analysis_status \in {"COMPLETED", "FAILED"})

C31_Witness ==
    \E b \in Runs :
        /\ bpc[b] = "done"
        /\ report[b].success
        /\ Len(report[b].details) = 2
        /\ \A v \in Range(selected[b]) :
              vstore[v].analysis_status \in {"COMPLETED", "FAILED"}

\* C32: the row the outcome rule stages for a video is consistent: COMPLETED
\* comes with a transcript or with has_quiz true, has_quiz true comes only
\* with COMPLETED and a quiz payload, and FAILED comes with no quiz payload
\* and has_quiz false.
C32_StagedRowIsConsistent ==
    analysed # None /\ analysed.state = "staged"
    => LET row == analysed.out.row IN
       /\ row.analysis_status \in {"COMPLETED", "FAILED"}
       /\ row.analysis_status = "COMPLETED"
             => row.transcript_text # NoText \/ row.has_quiz
       /\ row.has_quiz
             => row.analysis_status = "COMPLETED" /\ row.quiz_data # None
       /\ row.analysis_status = "FAILED"
             => row.quiz_data = None /\ ~row.has_quiz

C32_Witness ==
    /\ analysed # None
    /\ analysed.state = "staged"
    /\ analysed.outcome.success
    /\ analysed.outcome.quiz_data # None
    /\ analysed.out.row.analysis_status = "FAILED"
    /\ analysed.out.row.quiz_data = None

\* C33: every stored certificate has an artifact URL, the one the upload for
\* its own identifier returned, and a certificate is stored only by the
\* commit of a call whose render and upload have succeeded for that row.
C33_StoredCertificateHasItsUpload ==
    /\ [](\A c \in certs :
            /\ c.pdf_url # NoUrl
            /\ c.pdf_url = <<"certificate", c.id>>)
    /\ [][\A c \in certs' \ certs :
            \E r \in Reqs :
                /\ pc[r] = "commit" /\ pc'[r] = "done"
                /\ staged[r] = c
                /\ Len(trace[r]) = 4
                /\ trace[r][3] = <<"render", "ok">>
                /\ trace[r][4] = <<"upload", "ok">>]_vars

C33_Witness ==
    \E c \in certs, r \in Reqs :
        /\ c.pdf_url = <<"certificate", c.id>>
        /\ pc[r] = "failed" /\ Did(r, "upload")
        /\ staged[r].id # c.id
        /\ staged[r].pdf_url = NoUrl

\* C34: for a fixed course the answers of check_eligibility and of the
\* existence check for a user are the same in two states that differ only in
\* what other users have: a step that leaves the user's enrollment, progress
\* and certificates as they are leaves both answers as they are; a call
\* returns only a certificate of its own user; and no step of
\* issue_certificate changes a video, a progress record, or the enrollment or
\* the certificates of another user.
C34_PerUserIsolation ==
    /\ [][\A a \in Users :
            /\ enrollment'[a] = enrollment[a]
            /\ progress'[a] = progress[a]
            /\ {c \in certs' : c.user_id = a} = {c \in certs : c.user_id = a}
            /\ numVideos' = numVideos
            => /\ check_eligibility(a)' = check_eligibility(a)
               /\ ExistingCerts(a)' = ExistingCerts(a)]_vars
    /\ [](\A r \in Reqs :
            result[r].kind = "certificate" =>
                \E c \in certs : c.id = result[r].cert /\ c.user_id = user[r])
    /\ [][\A r \in Reqs :
            pc'[r] # pc[r] =>
                /\ progress' = progress
                /\ numVideos' = numVideos
                /\ vstore' = vstore
                /\ \A u \in Users \ {user[r], user'[r]} :
                      /\ enrollment'[u] = enrollment[u]
                      /\ {c \in certs' : c.user_id = u}
                             = {c \in certs : c.user_id = u}]_vars

C34_Witness ==
    \E r1 \in Reqs, r2 \in Reqs :
        /\ user[r1] # user[r2]
        /\ result[r1].kind = "certificate"
        /\ result[r2].kind = "not eligible"
        /\ enrollment[user[r2]] # None
        /\ ~enrollment[user[r2]].is_completed
        /\ \E v \in CourseVideos : progress[user[r2]][v] # None

=============================================================================
